---- MODULE Spec2Model ----
(***************************************************************************)
(* A model of pyrisco's cloud client (pyrisco/cloud/risco_cloud.py):       *)
(* the session state of one RiscoCloud object, the login handshake, the    *)
(* retry loop of _site_post and the command encoder, driven by a server    *)
(* that may answer every request in every way the code distinguishes.      *)
(*                                                                         *)
(* Python coroutines run without interruption between two suspensions, so  *)
(* one action is one such stretch: a public call up to its first pending   *)
(* request, or the delivery of a response (or of the end of a handle's     *)
(* close) up to the next pending request or the end of the call.  The      *)
(* coroutine frames that are suspended are kept in stack[t], innermost     *)
(* frame last.  An exception that no handler of the code catches unwinds   *)
(* the whole stack of the task.                                            *)
(*                                                                         *)
(* Spec is one caller making one call at a time; SpecCancel adds the        *)
(* cancellation of a suspended call; SpecConc is two callers whose calls    *)
(* interleave at the suspensions.                                           *)
(***************************************************************************)
EXTENDS Integers, Sequences, FiniteSets, TLC

VARIABLES
  access_token,     \* self._access_token: "None", "" or a bearer token
  session_id,       \* self._session_id: 0 is None, n > 0 the n-th id the server issued
  site,             \* self._site_id / _site_name / _site_uuid
  session,          \* self._session: "None", "ext" (the caller's handle) or "own"
  created_session,  \* self._created_session
  profile,          \* _control_url, the two body templates and the three state codes
  stack,            \* per task: the suspended coroutine frames, innermost last
  outcome,          \* per task: what the caller of the last public call got
  issued,           \* server: how many session ids it has issued
  detected,         \* the state response the profile in force was derived from
  last,             \* per task: the last response delivered during its public call
  handles           \* what has happened to the transport handles

vars == <<access_token, session_id, site, session, created_session, profile,
          stack, outcome, issued, detected, last, handles>>

----------------------------------------------------------------------------
(* Bounds of the model. *)

\* How many session ids the server issues in one behaviour.  Every nested
\* re-login needs one, so this bounds the depth of the stacks as well.
MaxSessions == 3

----------------------------------------------------------------------------
(* Constants of risco_cloud.py. *)

NUM_RETRIES == 3
RETRYABLE_RESULT_CODE == 72
PANEL_ARM == 1
PANEL_DISARM == 0
PANEL_PARTIAL_ARM == 2
PARTITION_ARM == 3
PARTITION_DISARM == 1
PARTITION_PARTIAL_ARM == 2

LOGIN_URL == "auth/login"
SITE_URL == "site/GetAll"
PIN_URL == "site/%s/Login"
STATE_URL == "site/%s/ControlPanel/GetState"
CONTROL_URL == "site/%s/ControlPanel/PartArm"
CONTROL_URL_PANEL_MODE == "site/%s/ControlPanel/Arm"
EVENTS_URL == "site/%s/ControlPanel/GetEventLog"
BYPASS_URL == "site/%s/ControlPanel/SetZoneBypassStatus"

GROUP_ID_TO_NAME == <<"A", "B", "C", "D">>

\* The two families of body templates of _init_system_partion_type.
PANEL_STATE_TEMPLATE == "{{\"newSystemStatus\": {1} }}"
PANEL_GROUP_TEMPLATE == "{{\"newSystemStatus\": {1} }}"
PARTITION_STATE_TEMPLATE == "{\"partitions\": [{\"id\": {0}, \"armedState\": {1}}],}"
PARTITION_GROUP_TEMPLATE ==
  "{\"partitions\": [{\"id\": {0}, \"groups\": [{\"id\": {1}, \"state\": {2}}]}],}"

\* A result code that is neither 0 nor the retryable one.
OTHER_RESULT_CODE == 5

Unset == "unset"
NoCode == -1

\* The attributes _init_system_partion_type assigns; RiscoCloud.__init__ does
\* not create them.
UnsetProfile ==
  [control_url |-> Unset, state_body_template |-> Unset,
   group_body_template |-> Unset, state_arm |-> NoCode,
   state_disarm |-> NoCode, state_partial_arm |-> NoCode]

PanelProfile ==
  [control_url |-> CONTROL_URL_PANEL_MODE,
   state_body_template |-> PANEL_STATE_TEMPLATE,
   group_body_template |-> PANEL_GROUP_TEMPLATE,
   state_arm |-> PANEL_ARM, state_disarm |-> PANEL_DISARM,
   state_partial_arm |-> PANEL_PARTIAL_ARM]

PartitionProfile ==
  [control_url |-> CONTROL_URL,
   state_body_template |-> PARTITION_STATE_TEMPLATE,
   group_body_template |-> PARTITION_GROUP_TEMPLATE,
   state_arm |-> PARTITION_ARM, state_disarm |-> PARTITION_DISARM,
   state_partial_arm |-> PARTITION_PARTIAL_ARM]

NoSite == [id |-> "None", name |-> "None", uuid |-> "None"]

----------------------------------------------------------------------------
(* The server's answers. *)

\* What resp.json() of the login endpoint may be: no connection, status 401,
\* or status 200 with, without or with an empty accessToken.
LoginResponses ==
  {[conn |-> FALSE, status |-> 0, accessToken |-> "None"],
   [conn |-> TRUE, status |-> 401, accessToken |-> "None"]}
  \cup {[conn |-> TRUE, status |-> 200, accessToken |-> a] : a \in {"None", "", "tok"}}

\* A partition record of a state response: its id and whether the record itself
\* has a "partitions" entry ("absent", "null" or "list").
PartitionRecord(id, partitions) == [id |-> id, partitions |-> partitions]

\* resp["state"]["status"] of a state response: "partitions" null or a list.
StatePayloads ==
  {[partitions_null |-> TRUE, partitions |-> <<>>]}
  \cup {[partitions_null |-> FALSE, partitions |-> s] :
          s \in {<<>>,
                 <<PartitionRecord(0, "absent")>>,
                 <<PartitionRecord(1, "null")>>,
                 <<PartitionRecord(0, "list")>>,
                 <<PartitionRecord(0, "absent"), PartitionRecord(1, "list")>>,
                 <<PartitionRecord(0, "absent"), PartitionRecord(0, "list")>>}}

NoPayload == [partitions_null |-> TRUE, partitions |-> <<>>]

\* The (status, result) pairs of an authenticated request's answer; has_result
\* is whether the JSON has a "result" entry at all.
ResultShapes ==
  {[has_result |-> FALSE, result |-> 0], [has_result |-> TRUE, result |-> 0],
   [has_result |-> TRUE, result |-> RETRYABLE_RESULT_CODE],
   [has_result |-> TRUE, result |-> OTHER_RESULT_CODE]}

ApiResponses(payloads) ==
  {[conn |-> FALSE, status |-> 0, has_result |-> FALSE, result |-> 0,
    response |-> NoPayload]}
  \cup {[conn |-> TRUE, status |-> 401, has_result |-> r.has_result,
         result |-> r.result, response |-> NoPayload] : r \in ResultShapes}
  \cup {[conn |-> TRUE, status |-> 200, has_result |-> r.has_result,
         result |-> r.result, response |-> NoPayload] :
          r \in {x \in ResultShapes : x.has_result /\ x.result # 0}}
  \cup {[conn |-> TRUE, status |-> 200, has_result |-> r.has_result,
         result |-> r.result, response |-> p] :
          r \in {x \in ResultShapes : x.result = 0}, p \in payloads}

----------------------------------------------------------------------------
(* Pure functions of the code. *)

\* _authenticated_post, lines 60-69: what the response raises, or "ok".
ClassifyMutantResultFirst(resp) ==
  IF ~resp.conn THEN "ClientConnectorError"
  ELSE IF resp.has_result /\ resp.result = RETRYABLE_RESULT_CODE
    THEN "RetryableOperationError"
  ELSE IF resp.status = 401 THEN "UnauthorizedError"
  ELSE IF resp.has_result /\ resp.result # 0 THEN "OperationError"
  ELSE "ok"

Classify(resp) ==
  IF ~resp.conn THEN "ClientConnectorError"
  ELSE IF resp.status = 401 THEN "UnauthorizedError"
  ELSE IF resp.has_result /\ resp.result = RETRYABLE_RESULT_CODE
    THEN "RetryableOperationError"
  ELSE IF resp.has_result /\ resp.result # 0 THEN "OperationError"
  ELSE "ok"

\* The keys of {p["id"]: ... for p in s} in insertion order.
RECURSIVE DictKeys(_)
DictKeys(s) ==
  IF s = <<>> THEN <<>>
  ELSE LET init == DictKeys(SubSeq(s, 1, Len(s) - 1))
           k == s[Len(s)].id
       IN IF \E n \in 1..Len(init) : init[n] = k THEN init ELSE Append(init, k)

\* Alarm.partitions: the values of the dict in insertion order.  A later record
\* with the same id replaces the value and keeps the place of the first.
\* Without a list there is one SinglePartition over the whole snapshot, whose
\* "partitions" entry is null.
AlarmPartitions(raw) ==
  IF raw.partitions_null
  THEN << [id |-> 0, partitions |-> "null"] >>
  ELSE LET s == raw.partitions
           keys == DictKeys(s)
           lastOf(k) == CHOOSE n \in 1..Len(s) :
                          s[n].id = k /\ \A m \in (n + 1)..Len(s) : s[m].id # k
       IN [n \in 1..Len(keys) |-> s[lastOf(keys[n])]]

\* Partition.panel_mode / SinglePartition.panel_mode:
\* self._raw.get("partitions") is None.
panel_mode(p) == p.partitions \in {"absent", "null"}

\* The assignments of _init_system_partion_type for a first partition.
DialectProfileMutantSharedCodes(first_partition) ==
  [PartitionProfile EXCEPT
     !.control_url = IF panel_mode(first_partition)
                     THEN CONTROL_URL_PANEL_MODE ELSE CONTROL_URL]

DialectProfile(first_partition) ==
  IF panel_mode(first_partition) THEN PanelProfile ELSE PartitionProfile

----------------------------------------------------------------------------
(* The command encoder: disarm / arm / partial_arm / group_arm build the    *)
(* body before anything is sent.  A body is a sequence of <<key, value>>;   *)
(* a call that raises while building it yields [err |-> the exception].     *)

Encoded(body) == [err |-> "", body |-> body]
EncodeError(e) == [err |-> e, body |-> <<>>]

\* str.format of a body template followed by json.loads.  The panel templates
\* use only field {1}; in the partition templates the first brace opens a
\* replacement field named "partitions", for which format() raises KeyError.
FormatTemplate(template, args) ==
  IF template = Unset THEN EncodeError("AttributeError")
  ELSE IF template \in {PANEL_STATE_TEMPLATE, PANEL_GROUP_TEMPLATE}
    THEN Encoded(<< <<"newSystemStatus", args[2]>> >>)
  ELSE EncodeError("KeyError")

\* The state code an operation reads from the profile.
StateCode(prof, name) ==
  CASE name = "arm" -> prof.state_arm
    [] name = "disarm" -> prof.state_disarm
    [] name = "partial_arm" -> prof.state_partial_arm

\* disarm / arm / partial_arm.
StateBody(prof, name, partition) ==
  FormatTemplate(prof.state_body_template, <<partition, StateCode(prof, name)>>)

\* GROUP_ID_TO_NAME.index(group), 0-based; -1 stands for ValueError.
GroupIndex(letter) ==
  IF \E n \in 1..Len(GROUP_ID_TO_NAME) : GROUP_ID_TO_NAME[n] = letter
  THEN (CHOOSE n \in 1..Len(GROUP_ID_TO_NAME) : GROUP_ID_TO_NAME[n] = letter) - 1
  ELSE -1

\* group_arm: the body is built in the isinstance(group, str) branch only, with
\* the literal 3 as third argument; for an int group `body` is unbound.
GroupBody(prof, partition, group) ==
  IF group.is_str
  THEN IF GroupIndex(group.letter) < 0 THEN EncodeError("ValueError")
       ELSE FormatTemplate(prof.group_body_template,
                           <<partition, GroupIndex(group.letter), 3>>)
  ELSE EncodeError("UnboundLocalError")

\* The arguments the model passes.
PartitionIds == {0, 1}
Groups ==
  {[is_str |-> TRUE, letter |-> l, index |-> 0] : l \in {"A", "B", "C", "D", "E"}}
  \cup {[is_str |-> FALSE, letter |-> "", index |-> n] : n \in 0..3}

\* get_events and bypass_zone bodies.
EventsBody == << <<"count", 10>>, <<"newerThan", 0>>, <<"offset", 0>> >>
BypassBody(zone, bypass) ==
  << <<"trouble", 0>>, <<"ZoneID", zone>>, <<"Status", IF bypass THEN 2 ELSE 3>> >>

----------------------------------------------------------------------------
(* Frames, outcomes and the record of the whole state the operators below  *)
(* transform.                                                              *)

NoReq == [url |-> "", site_id |-> "None", body |-> <<>>, fromControlPanel |-> TRUE,
          sessionToken |-> 0, bearer |-> "None"]

\* A _site_post frame: url and the site id formatted into it on entry, the loop
\* variable i, from_control_panel, and the request awaited.  n401 and nbusy
\* count the 401 and busy answers its own request got, relog the close()+login()
\* pairs it started.
SitePostFrame(caller, url, site_id, body) ==
  [fn |-> "_site_post", pc |-> "post", caller |-> caller, url |-> url,
   site_id |-> site_id, body |-> body, i |-> 0, from_control_panel |-> TRUE,
   req |-> NoReq, n401 |-> 0, nbusy |-> 0, relog |-> 0]

\* A login frame: the session argument, and the steps whose request it has sent
\* so far; det is the partitions shape its detection query was answered with.
\* No detection yet.  shape and first describe the state response a detection
\* read ("partitions" null or a list; the "partitions" entry of the first
\* partition); stale is whether close() has run since.
NoDetection == [shape |-> "none", first |-> "none", stale |-> FALSE]

LoginFrame(arg, pre_sid) ==
  [fn |-> "login", pc |-> "start", arg |-> arg, steps |-> <<>>,
   det |-> NoDetection, pre_sid |-> pre_sid, noop |-> FALSE]

CloseFrame == [fn |-> "close", pc |-> "closing"]

NoFrame == [fn |-> "none", pc |-> "none"]
NoLast == [to |-> "none", conn |-> TRUE, status |-> 0, has_result |-> FALSE,
           result |-> 0, cls |-> "none", depth |-> 0]
\* after_login: the call before this one was a login() that returned normally.
NoOutcome == [kind |-> "none", op |-> "none", err |-> "", raised_in |-> "",
              raised_at |-> 0, frame |-> NoFrame, assumed |-> FALSE,
              after_login |-> FALSE]

\* The transport handles.  closed: close() has been called on the handle
\* self._session refers to.  ext_closed: the client has called close() on the
\* caller's handle.  leaked: the client has dropped its reference to a handle
\* it created and never closed.  cut[t]: the handle the pending request of
\* task t was sent on has been closed or dropped by the client since.
NoHandles(tasks) ==
  [closed |-> FALSE, ext_closed |-> FALSE, leaked |-> FALSE,
   cut |-> [t \in tasks |-> FALSE]]

Cur ==
  [access_token |-> access_token, session_id |-> session_id, site |-> site,
   session |-> session, created_session |-> created_session,
   profile |-> profile, stack |-> stack, outcome |-> outcome,
   issued |-> issued, detected |-> detected, last |-> last, handles |-> handles]

Commit(w) ==
  /\ access_token' = w.access_token
  /\ session_id' = w.session_id
  /\ site' = w.site
  /\ session' = w.session
  /\ created_session' = w.created_session
  /\ profile' = w.profile
  /\ stack' = w.stack
  /\ outcome' = w.outcome
  /\ issued' = w.issued
  /\ detected' = w.detected
  /\ last' = w.last
  /\ handles' = w.handles

Top(w, t) == w.stack[t][Len(w.stack[t])]
SetTop(w, t, f) == [w EXCEPT !.stack[t][Len(w.stack[t])] = f]
Push(w, t, f) == [w EXCEPT !.stack[t] = Append(@, f)]
Pop(w, t) == [w EXCEPT !.stack[t] = SubSeq(@, 1, Len(@) - 1)]

\* How many _site_post frames task t has suspended.
Depth(stk) == Cardinality({n \in 1..Len(stk) : stk[n].fn = "_site_post"})

----------------------------------------------------------------------------
(* The end of a public call. *)

\* What an outcome keeps of the outermost frame: its loop variable, flag and
\* counters, not the request it awaited.
Snapshot(f) ==
  IF f.fn = "_site_post"
  THEN [f EXCEPT !.req = NoReq, !.body = <<>>, !.site_id = "None"]
  ELSE f

\* An exception nothing catches: every frame of the task is unwound and the
\* caller gets it.  The outcome keeps the outermost frame as it was then.
Raise(w, t, e) ==
  LET stk == w.stack[t] IN
  [w EXCEPT !.outcome[t] =
              [kind |-> "error", op |-> @.op, err |-> e,
               raised_in |-> IF stk = <<>> THEN "call" ELSE stk[Len(stk)].fn,
               raised_at |-> Len(stk),
               frame |-> IF stk = <<>> THEN NoFrame ELSE Snapshot(stk[1]),
               assumed |-> FALSE, after_login |-> @.after_login],
            !.stack[t] = <<>>,
            !.handles.cut[t] = FALSE]

\* The outermost coroutine returns.
Done(w, t, frame, assumed) ==
  [w EXCEPT !.outcome[t] =
              [kind |-> "ok", op |-> @.op, err |-> "", raised_in |-> "",
               raised_at |-> 0, frame |-> Snapshot(frame), assumed |-> assumed,
               after_login |-> @.after_login],
            !.stack[t] = <<>>]

\* A public call begins.
Begin(w, t, op) ==
  [w EXCEPT !.outcome[t] =
              [NoOutcome EXCEPT !.kind = "running", !.op = op,
                                !.after_login = w.outcome[t].kind = "ok"
                                                /\ w.outcome[t].op = "login"],
            !.last[t] = NoLast]

Received(w, t, to, resp, cls) ==
  [w EXCEPT !.last[t] = [to |-> to, conn |-> resp.conn, status |-> resp.status,
                         has_result |-> resp.has_result, result |-> resp.result,
                         cls |-> cls, depth |-> Len(w.stack[t])],
            !.handles.cut[t] = FALSE]

----------------------------------------------------------------------------
(* _authenticated_post and _site_post. *)

\* _authenticated_post before the request leaves: "Bearer " + None is a
\* TypeError, None.post an AttributeError, and a closed handle refuses the
\* request with a RuntimeError.
AuthPostFault(w) ==
  IF w.access_token = "None" THEN "TypeError"
  ELSE IF w.session = "None" THEN "AttributeError"
  ELSE IF w.handles.closed THEN "RuntimeError"
  ELSE ""

\* One pass of the loop body of _site_post up to the suspension in
\* _authenticated_post: the body is completed with from_control_panel and the
\* session id stored now.
AttemptMutantStaleFlag(w, t) ==
  LET f == Top(w, t) IN
  IF AuthPostFault(w) # "" THEN Raise(w, t, AuthPostFault(w))
  ELSE SetTop(w, t, [f EXCEPT !.pc = "post",
                              !.req = [url |-> f.url, site_id |-> f.site_id,
                                       body |-> f.body,
                                       fromControlPanel |-> TRUE,
                                       sessionToken |-> w.session_id,
                                       bearer |-> w.access_token]])

AttemptMutantTokenAtEntry(w, t) ==
  LET f == Top(w, t) IN
  IF AuthPostFault(w) # "" THEN Raise(w, t, AuthPostFault(w))
  ELSE SetTop(w, t, [f EXCEPT !.pc = "post",
                              !.req = [url |-> f.url, site_id |-> f.site_id,
                                       body |-> f.body,
                                       fromControlPanel |-> f.from_control_panel,
                                       sessionToken |-> IF f.i = 0 THEN w.session_id
                                                        ELSE f.req.sessionToken,
                                       bearer |-> w.access_token]])

Attempt(w, t) ==
  LET f == Top(w, t) IN
  IF AuthPostFault(w) # "" THEN Raise(w, t, AuthPostFault(w))
  ELSE SetTop(w, t, [f EXCEPT !.pc = "post",
                              !.req = [url |-> f.url, site_id |-> f.site_id,
                                       body |-> f.body,
                                       fromControlPanel |-> f.from_control_panel,
                                       sessionToken |-> w.session_id,
                                       bearer |-> w.access_token]])

\* The for loop goes on to the next i.
NextAttempt(w, t) ==
  Attempt(SetTop(w, t, [Top(w, t) EXCEPT !.i = @ + 1]), t)

\* _site_post from its first line to the first suspension.
SitePostEnter(w, t, caller, url, body) ==
  Attempt(Push(w, t, SitePostFrame(caller, url, w.site.id, body)), t)

----------------------------------------------------------------------------
(* close, _init_session and the login steps. *)

\* close(): the session id is cleared first; the handle is closed, with a
\* suspension, when the client created it.
CloseNeedsAwaitMutantAnyHandle(w) == w.session # "None"

CloseNeedsAwait(w) == w.created_session = TRUE /\ w.session # "None"

\* Task t has a request pending on the handle.
InFlight(w, t) ==
  /\ w.stack[t] # <<>>
  /\ w.stack[t][Len(w.stack[t])].pc \in {"userpass", "site", "pin", "post"}

\* Lines 137-139 up to the suspension, run by task t: self._session.close() is
\* called on the handle held now, whatever requests other tasks have pending
\* on it.
CloseBegin(w, t) ==
  LET w1 == [w EXCEPT !.session_id = 0, !.detected.stale = TRUE] IN
  IF CloseNeedsAwait(w1)
  THEN [w1 EXCEPT !.handles.closed = TRUE,
                  !.handles.ext_closed = @ \/ w.session = "ext",
                  !.handles.cut = [u \in DOMAIN @ |-> @[u] \/ (u # t /\ InFlight(w, u))]]
  ELSE w1

\* Lines 140-141, after the suspension: the reference held now is dropped.
CloseEndMutantKeepsFlag(w) ==
  [w EXCEPT !.session = "None",
            !.handles.leaked = @ \/ (w.session = "own" /\ ~w.handles.closed),
            !.handles.closed = FALSE,
            !.handles.cut = [u \in DOMAIN @ |-> @[u] \/ (w.session # "None" /\ InFlight(w, u))]]

CloseEnd(w) ==
  [w EXCEPT !.session = "None", !.created_session = FALSE,
            !.handles.leaked = @ \/ (w.session = "own" /\ ~w.handles.closed),
            !.handles.closed = FALSE,
            !.handles.cut = [u \in DOMAIN @ |-> @[u] \/ (w.session # "None" /\ InFlight(w, u))]]

\* _login_user_pass up to its suspension.
LoginUserPass(w, t) ==
  LET f == Top(w, t) IN
  IF w.session = "None" THEN Raise(w, t, "AttributeError")
  ELSE IF w.handles.closed THEN Raise(w, t, "RuntimeError")
  ELSE SetTop(w, t, [f EXCEPT !.pc = "userpass",
                              !.steps = Append(@, "credentials")])

\* _init_session after its close(): a handle is created or taken over only
\* when none is held; then login goes on with _login_user_pass.
InitSessionCont(w, t) ==
  LET f == Top(w, t)
      w1 == IF w.session = "None"
            THEN IF f.arg = "None"
                 THEN [w EXCEPT !.session = "own", !.created_session = TRUE,
                                !.handles.closed = FALSE]
                 ELSE [w EXCEPT !.session = f.arg, !.handles.closed = FALSE]
            ELSE w
  IN LoginUserPass(w1, t)

\* _init_session from its first line.
InitSession(w, t) ==
  LET w1 == CloseBegin(w, t) IN
  IF CloseNeedsAwait(w1)
  THEN SetTop(w1, t, [Top(w1, t) EXCEPT !.pc = "init_close"])
  ELSE InitSessionCont(w1, t)

\* login() returns to the loop of the _site_post that called it, or to the
\* caller of the public login.
LoginReturn(w, t) ==
  LET f == Top(w, t)
      w1 == Pop(w, t)
  IN IF w1.stack[t] = <<>> THEN Done(w1, t, f, FALSE) ELSE NextAttempt(w1, t)

\* login(session): nothing happens when a session id is stored.
LoginEnterMutantNoGuard(w, t, arg) ==
  InitSession(Push(w, t, LoginFrame(arg, w.session_id)), t)

LoginEnter(w, t, arg) ==
  IF w.session_id # 0
  THEN IF w.stack[t] = <<>>
       THEN Done(w, t, [LoginFrame(arg, w.session_id) EXCEPT !.noop = TRUE], FALSE)
       ELSE NextAttempt(w, t)
  ELSE InitSession(Push(w, t, LoginFrame(arg, w.session_id)), t)

\* The except branch of _site_post for UnauthorizedError after its close().
Relogin(w, t) ==
  LoginEnter(SetTop(w, t, [Top(w, t) EXCEPT !.pc = "login"]), t, "None")

\* The except branch of _site_post for UnauthorizedError: close(), login().
HandlerClose(w, t) ==
  LET w1 == CloseBegin(SetTop(w, t, [Top(w, t) EXCEPT !.relog = @ + 1]), t) IN
  IF CloseNeedsAwait(w1)
  THEN SetTop(w1, t, [Top(w1, t) EXCEPT !.pc = "close"])
  ELSE Relogin(w1, t)

\* _login_site and _login_session up to the suspension of their request.
LoginSite(w, t) ==
  IF AuthPostFault(w) # "" THEN Raise(w, t, AuthPostFault(w))
  ELSE SetTop(w, t, [Top(w, t) EXCEPT !.pc = "site", !.steps = Append(@, "site")])

LoginSession(w, t) ==
  IF AuthPostFault(w) # "" THEN Raise(w, t, AuthPostFault(w))
  ELSE SetTop(w, t, [Top(w, t) EXCEPT !.pc = "pin", !.steps = Append(@, "pin")])

\* _init_system_partion_type from its first line: get_state, so _site_post.
DetectEnter(w, t) ==
  SitePostEnter(SetTop(w, t, [Top(w, t) EXCEPT !.pc = "detect",
                                                !.steps = Append(@, "detect")]),
                t, "_init_system_partion_type", STATE_URL, <<>>)

\* _init_system_partion_type after get_state returned the Alarm over raw:
\* list(alarm.partitions.values())[0] and the six assignments, then login ends.
Detect(w, t, raw) ==
  LET parts == AlarmPartitions(raw)
      d == [shape |-> IF raw.partitions_null THEN "null" ELSE "list",
            first |-> IF Len(parts) = 0 THEN "none" ELSE parts[1].partitions,
            stale |-> FALSE]
      w1 == SetTop(w, t, [Top(w, t) EXCEPT !.det = d])
  IN IF Len(parts) = 0 THEN Raise(w1, t, "IndexError")
     ELSE LoginReturn([w1 EXCEPT !.profile = DialectProfile(parts[1]),
                                 !.detected = d], t)

\* What the public operation makes of the flag _site_post returned: get_state,
\* bypass_zone and _send_control_command pass it to the Alarm they return,
\* get_events returns a list of events and drops it.
AlarmFlag(caller, flag) == IF caller = "get_events" THEN FALSE ELSE flag

\* _site_post returns (payload, not from_control_panel): to the caller of the
\* public operation, or to _init_system_partion_type.
SitePostReturnMutantNoNegation(w, t, resp) ==
  LET f == Top(w, t)
      w1 == Pop(w, t)
  IN IF w1.stack[t] = <<>>
     THEN Done(w1, t, f, AlarmFlag(f.caller, f.from_control_panel))
     ELSE Detect(w1, t, resp.response)

SitePostReturn(w, t, resp) ==
  LET f == Top(w, t)
      w1 == Pop(w, t)
  IN IF w1.stack[t] = <<>>
     THEN Done(w1, t, f, AlarmFlag(f.caller, ~f.from_control_panel))
     ELSE Detect(w1, t, resp.response)

----------------------------------------------------------------------------
(* The public operations, each up to its first suspension. *)

Tasks == {1}
SessionArgs == {"None", "ext"}
TheSite == [id |-> "site1", name |-> "home", uuid |-> "uuid1"]

Idle(t) == stack[t] = <<>>

\* login(session)
CallLogin(t, arg) ==
  /\ Idle(t)
  /\ Commit(LoginEnter(Begin(Cur, t, "login"), t, arg))

\* close()
CallClose(t) ==
  /\ Idle(t)
  /\ LET w == CloseBegin(Begin(Cur, t, "close"), t) IN
     IF CloseNeedsAwait(w)
     THEN Commit(Push(w, t, CloseFrame))
     ELSE Commit(Done(w, t, NoFrame, FALSE))

\* get_state()
CallGetState(t) ==
  /\ Idle(t)
  /\ Commit(SitePostEnter(Begin(Cur, t, "get_state"), t, "get_state", STATE_URL, <<>>))

\* _send_control_command(body) once the body is built.
SendControlCommand(w, t, name, enc) ==
  IF enc.err # "" THEN Raise(w, t, enc.err)
  ELSE SitePostEnter(w, t, name, w.profile.control_url, enc.body)

\* disarm(partition), arm(partition), partial_arm(partition)
CallStateCommand(t, name, partition) ==
  /\ Idle(t)
  /\ Commit(SendControlCommand(Begin(Cur, t, name), t, name,
                               StateBody(profile, name, partition)))

\* group_arm(partition, group)
CallGroupArm(t, partition, group) ==
  /\ Idle(t)
  /\ Commit(SendControlCommand(Begin(Cur, t, "group_arm"), t, "group_arm",
                               GroupBody(profile, partition, group)))

\* get_events(newer_than, count)
CallGetEvents(t) ==
  /\ Idle(t)
  /\ Commit(SitePostEnter(Begin(Cur, t, "get_events"), t, "get_events",
                          EVENTS_URL, EventsBody))

\* bypass_zone(zone, bypass)
CallBypassZone(t, zone, bypass) ==
  /\ Idle(t)
  /\ Commit(SitePostEnter(Begin(Cur, t, "bypass_zone"), t, "bypass_zone",
                          BYPASS_URL, BypassBody(zone, bypass)))

----------------------------------------------------------------------------
(* The resumptions: a response arrives, or a handle's close() ends. *)

AtTop(t, fn, pc) ==
  /\ stack[t] # <<>>
  /\ stack[t][Len(stack[t])].fn = fn
  /\ stack[t][Len(stack[t])].pc = pc

\* _login_user_pass, lines 100-108.
RecvUserPass(t, resp) ==
  /\ AtTop(t, "login", "userpass")
  /\ LET cls == IF ~resp.conn THEN "CannotConnectError"
                ELSE IF resp.status = 401 \/ resp.accessToken \in {"None", ""}
                  THEN "UnauthorizedError"
                ELSE "ok"
         w == Received(Cur, t, "userpass",
                       [conn |-> resp.conn, status |-> resp.status,
                        has_result |-> FALSE, result |-> 0], cls)
         w1 == [w EXCEPT !.access_token = resp.accessToken]
     IN IF ~resp.conn THEN Commit(Raise(w, t, "CannotConnectError"))
        ELSE IF resp.status = 401 THEN Commit(Raise(w, t, "UnauthorizedError"))
        ELSE IF resp.accessToken \in {"None", ""}
          THEN Commit(Raise(w1, t, "UnauthorizedError"))
        ELSE Commit(LoginSite(w1, t))

\* _login_site, lines 111-114, then _login_session up to its request.
RecvSite(t, resp) ==
  /\ AtTop(t, "login", "site")
  /\ LET cls == Classify(resp)
         w == Received(Cur, t, "site", resp, cls)
     IN IF cls # "ok" THEN Commit(Raise(w, t, cls))
        ELSE Commit(LoginSession([w EXCEPT !.site = TheSite], t))

\* _login_session, lines 119-120, then _init_system_partion_type up to the
\* request of its get_state.
RecvPin(t, resp) ==
  /\ AtTop(t, "login", "pin")
  /\ LET cls == Classify(resp)
         w == Received(Cur, t, "pin", resp, cls)
     IN IF cls # "ok" THEN Commit(Raise(w, t, cls))
        ELSE /\ issued < MaxSessions
             /\ Commit(DetectEnter([w EXCEPT !.session_id = issued + 1,
                                             !.issued = issued + 1], t))

\* What the except clause of _site_post does with the exception e of
\* attempt i (lines 82-91); f is the frame with its counters brought up to date.
HandleMutantNoBound(w, t, f, e) ==
  IF e \notin {"UnauthorizedError", "RetryableOperationError"}
  THEN Raise(SetTop(w, t, f), t, e)
  ELSE IF e = "RetryableOperationError"
    THEN IF f.i + 1 = NUM_RETRIES
         THEN Raise(SetTop(w, t, f), t, "OperationError: after retries")
         ELSE NextAttempt(SetTop(w, t, [f EXCEPT !.from_control_panel = FALSE]), t)
  ELSE HandlerClose(SetTop(w, t, f), t)

HandleMutantBusyRelogin(w, t, f, e) ==
  IF e \notin {"UnauthorizedError", "RetryableOperationError"}
  THEN Raise(SetTop(w, t, f), t, e)
  ELSE IF f.i + 1 = NUM_RETRIES
    THEN IF e = "RetryableOperationError"
         THEN Raise(SetTop(w, t, f), t, "OperationError: after retries")
         ELSE Raise(SetTop(w, t, f), t, e)
  ELSE HandlerClose(SetTop(w, t, [f EXCEPT !.from_control_panel =
                                     IF e = "RetryableOperationError" THEN FALSE ELSE @]), t)

Handle(w, t, f, e) ==
  IF e \notin {"UnauthorizedError", "RetryableOperationError"}
  THEN Raise(SetTop(w, t, f), t, e)
  ELSE IF f.i + 1 = NUM_RETRIES
    THEN IF e = "RetryableOperationError"
         THEN Raise(SetTop(w, t, f), t, "OperationError: after retries")
         ELSE Raise(SetTop(w, t, f), t, e)
  ELSE IF e = "RetryableOperationError"
    THEN NextAttempt(SetTop(w, t, [f EXCEPT !.from_control_panel = FALSE]), t)
  ELSE HandlerClose(SetTop(w, t, f), t)

\* The answer to an attempt of _site_post.
RecvPost(t, resp) ==
  /\ AtTop(t, "_site_post", "post")
  /\ LET f == stack[t][Len(stack[t])]
         cls == Classify(resp)
         w == Received(Cur, t, "post", resp, cls)
         f1 == [f EXCEPT !.n401 = IF cls = "UnauthorizedError" THEN @ + 1 ELSE @,
                         !.nbusy = IF cls = "RetryableOperationError" THEN @ + 1 ELSE @]
     IN IF cls = "ok" THEN Commit(SitePostReturn(w, t, resp))
        ELSE Commit(Handle(w, t, f1, cls))

\* await self._session.close() ends: lines 140-141, then whoever called close().
CloseAwaitDone(t) ==
  /\ stack[t] # <<>>
  /\ LET f == stack[t][Len(stack[t])]
         w == CloseEnd(Cur)
     IN \/ /\ f.fn = "close"
           /\ Commit(Done(Pop(w, t), t, NoFrame, FALSE))
        \/ /\ f.fn = "login" /\ f.pc = "init_close"
           /\ Commit(InitSessionCont(w, t))
        \/ /\ f.fn = "_site_post" /\ f.pc = "close"
           /\ Commit(Relogin(w, t))

\* The payloads the server may put in the answer to the awaited request.
Payloads(t) ==
  IF stack[t] # <<>> /\ stack[t][Len(stack[t])].fn = "_site_post"
     /\ stack[t][Len(stack[t])].url = STATE_URL
  THEN StatePayloads ELSE {NoPayload}

----------------------------------------------------------------------------

\* RiscoCloud.__init__
Init ==
  /\ access_token = "None"
  /\ session_id = 0
  /\ site = NoSite
  /\ session = "None"
  /\ created_session = FALSE
  /\ profile = UnsetProfile
  /\ stack = [t \in Tasks |-> <<>>]
  /\ outcome = [t \in Tasks |-> NoOutcome]
  /\ issued = 0
  /\ detected = NoDetection
  /\ last = [t \in Tasks |-> NoLast]
  /\ handles = NoHandles(Tasks)

Next ==
  \/ \E t \in DOMAIN stack, arg \in SessionArgs : CallLogin(t, arg)
  \/ \E t \in DOMAIN stack : CallClose(t)
  \/ \E t \in DOMAIN stack : CallGetState(t)
  \/ \E t \in DOMAIN stack, name \in {"arm", "disarm", "partial_arm"},
        partition \in PartitionIds : CallStateCommand(t, name, partition)
  \/ \E t \in DOMAIN stack, partition \in PartitionIds, group \in Groups :
        CallGroupArm(t, partition, group)
  \/ \E t \in DOMAIN stack : CallGetEvents(t)
  \/ \E t \in DOMAIN stack, zone \in {1}, bypass \in BOOLEAN :
        CallBypassZone(t, zone, bypass)
  \/ \E t \in DOMAIN stack, resp \in LoginResponses : RecvUserPass(t, resp)
  \/ \E t \in DOMAIN stack, resp \in ApiResponses({NoPayload}) : RecvSite(t, resp)
  \/ \E t \in DOMAIN stack, resp \in ApiResponses({NoPayload}) : RecvPin(t, resp)
  \/ \E t \in DOMAIN stack : \E resp \in ApiResponses(Payloads(t)) : RecvPost(t, resp)
  \/ \E t \in DOMAIN stack : CloseAwaitDone(t)

Spec == Init /\ [][Next]_vars

----------------------------------------------------------------------------
(* Cancellation.  The caller may cancel the task of a public call while it   *)
(* is suspended: CancelledError is raised at the await.  No except clause of  *)
(* the code matches it (_site_post catches UnauthorizedError and              *)
(* RetryableOperationError, _login_user_pass ClientConnectorError), so every  *)
(* frame is unwound; when the await was a handle's close(), lines 140-141 do  *)
(* not run and the closed handle stays referenced.                            *)

CancelMutantCaught(t) ==
  /\ stack[t] # <<>>
  /\ LET f == stack[t][Len(stack[t])] IN
     IF f.fn = "_site_post" /\ f.pc = "post"
     THEN Commit(Handle(Cur, t, f, "UnauthorizedError"))
     ELSE Commit(Raise(Cur, t, "CancelledError"))

Cancel(t) ==
  /\ stack[t] # <<>>
  /\ Commit(Raise(Cur, t, "CancelledError"))

NextCancel ==
  \/ Next
  \/ \E t \in DOMAIN stack : Cancel(t)

SpecCancel == Init /\ [][NextCancel]_vars

----------------------------------------------------------------------------
(* Two callers on one client.  The embedding application may start a public *)
(* call while another is suspended; the event loop resumes whichever task's  *)
(* awaited request or close has ended.  The calls are login, close and       *)
(* get_state; the server answers the site and PIN requests with success or   *)
(* with status 401 and the state queries with success.                       *)

ConcTasks == {1, 2}

ConcResponses(payloads) ==
  {r \in ApiResponses(payloads) : r.conn /\ ~r.has_result}

ConcStatePayloads ==
  {p \in StatePayloads : p.partitions_null \/ p.partitions = <<PartitionRecord(0, "list")>>}

InitConc ==
  /\ access_token = "None"
  /\ session_id = 0
  /\ site = NoSite
  /\ session = "None"
  /\ created_session = FALSE
  /\ profile = UnsetProfile
  /\ stack = [t \in ConcTasks |-> <<>>]
  /\ outcome = [t \in ConcTasks |-> NoOutcome]
  /\ issued = 0
  /\ detected = NoDetection
  /\ last = [t \in ConcTasks |-> NoLast]
  /\ handles = NoHandles(ConcTasks)

NextConc ==
  \/ \E t \in DOMAIN stack, arg \in SessionArgs : CallLogin(t, arg)
  \/ \E t \in DOMAIN stack : CallClose(t)
  \/ \E t \in DOMAIN stack : CallGetState(t)
  \/ \E t \in DOMAIN stack, resp \in LoginResponses : RecvUserPass(t, resp)
  \/ \E t \in DOMAIN stack, resp \in ConcResponses({NoPayload}) : RecvSite(t, resp)
  \/ \E t \in DOMAIN stack, resp \in ConcResponses({NoPayload}) : RecvPin(t, resp)
  \/ \E t \in DOMAIN stack :
        \E resp \in {r \in ConcResponses(ConcStatePayloads) : r.status = 200} :
          RecvPost(t, resp)
  \/ \E t \in DOMAIN stack : CloseAwaitDone(t)

SpecConc == InitConc /\ [][NextConc]_vars

----------------------------------------------------------------------------
(* The claims. *)

SiteOps ==
  {"get_state", "arm", "disarm", "partial_arm", "group_arm", "get_events",
   "bypass_zone"}

SessionState == <<access_token, session_id, site, session, created_session, profile>>

\* The _site_post frames task t has suspended.
SitePostFrames(t) ==
  {stack[t][n] : n \in {m \in 1..Len(stack[t]) : stack[t][m].fn = "_site_post"}}

\* The public call of task t is over and was a site-scoped one.
SiteCallOver(t) ==
  /\ outcome[t].kind \in {"ok", "error"}
  /\ outcome[t].frame.fn = "_site_post"

\* C1: in every _site_post, each 401 answered to an attempt that is not the
\* last starts exactly one close()+login() and is followed by exactly one more
\* attempt; there are never more than NUM_RETRIES attempts nor more than
\* NUM_RETRIES - 1 re-logins; and a call whose three attempts all got 401 ends
\* with UnauthorizedError raised to the caller from its third attempt.
C1_UnauthorizedRetries ==
  \A t \in DOMAIN stack :
    /\ \A f \in SitePostFrames(t) :
         /\ f.i + 1 <= NUM_RETRIES
         /\ f.relog = f.n401
         /\ f.relog <= NUM_RETRIES - 1
         /\ IF f.pc = "post" THEN f.i = f.n401 + f.nbusy
                             ELSE f.i + 1 = f.n401 + f.nbusy
    /\ SiteCallOver(t) =>
         LET o == outcome[t] IN
         /\ o.frame.i + 1 <= NUM_RETRIES
         /\ o.frame.relog <= NUM_RETRIES - 1
         /\ o.frame.relog \in {o.frame.n401, o.frame.n401 - 1}
         /\ o.frame.n401 = NUM_RETRIES =>
              /\ o.kind = "error" /\ o.err = "UnauthorizedError"
              /\ o.raised_in = "_site_post" /\ o.raised_at = 1
              /\ o.frame.i + 1 = NUM_RETRIES
              /\ o.frame.relog = NUM_RETRIES - 1

\* A call whose three attempts all got 401 has ended.
C1_Witness ==
  \E t \in DOMAIN stack :
    /\ SiteCallOver(t)
    /\ outcome[t].frame.n401 = NUM_RETRIES
    /\ outcome[t].err = "UnauthorizedError"
    /\ outcome[t].frame.relog = NUM_RETRIES - 1

\* C2: in every _site_post the flag from_control_panel is true until the first
\* busy answer (result 72) and false from then on, the attempt in flight
\* carries it, a busy answer starts no re-login, and a call whose last attempt
\* was answered busy ends at the third attempt with the "after retries"
\* OperationError, not with RetryableOperationError.
C2_BusyRetries ==
  \A t \in DOMAIN stack :
    /\ \A f \in SitePostFrames(t) :
         /\ f.from_control_panel = (f.nbusy = 0)
         /\ f.pc = "post" => f.req.fromControlPanel = (f.nbusy = 0)
         /\ f.relog <= f.n401
    /\ ( /\ SiteCallOver(t)
         /\ outcome[t].raised_at = 1
         /\ last[t].to = "post" /\ last[t].depth = 1
         /\ last[t].cls = "RetryableOperationError" )
       => /\ outcome[t].kind = "error"
          /\ outcome[t].err = "OperationError: after retries"
          /\ outcome[t].frame.i + 1 = NUM_RETRIES
          /\ outcome[t].frame.relog = outcome[t].frame.n401

\* A call gave up after a busy third attempt, and one is in flight after a
\* busy answer.
C2_Witness ==
  \E t \in DOMAIN stack :
    /\ SiteCallOver(t)
    /\ outcome[t].err = "OperationError: after retries"
    /\ outcome[t].frame.nbusy = NUM_RETRIES
    /\ ~outcome[t].frame.from_control_panel

\* C3: a site-scoped call sends its own request at most NUM_RETRIES times and
\* the retry loops it causes stay bounded: the chain of _site_post loops nested
\* through re-logins never grows with the number of sessions the server grants.
C3_BoundedChain ==
  \A t \in DOMAIN stack :
    /\ \A f \in SitePostFrames(t) : f.i + 1 <= NUM_RETRIES
    /\ Depth(stack[t]) < MaxSessions

\* C4: a login() called right after a login() that returned normally returns
\* at once: no request is pending afterwards, no handle was created or closed
\* and no field of the session state changed.
C4_LoginIdempotent ==
  [][\A t \in DOMAIN stack, arg \in SessionArgs :
       (outcome[t].kind = "ok" /\ outcome[t].op = "login" /\ CallLogin(t, arg))
         => /\ UNCHANGED <<SessionState, issued, detected>>
            /\ stack'[t] = <<>>
            /\ outcome'[t].kind = "ok"
            /\ outcome'[t].frame.fn = "login" /\ outcome'[t].frame.noop]_vars

\* A login() that followed a successful login() has returned.
C4_Witness ==
  \E t \in DOMAIN stack :
    /\ outcome[t].kind = "ok" /\ outcome[t].op = "login"
    /\ outcome[t].after_login
    /\ outcome[t].frame.noop
    /\ session_id # 0

\* C5: a site-scoped operation raises UnauthorizedError to its caller only
\* from the third attempt of its own request.
C5_UnauthorizedOnlyAfterBound ==
  \A t \in DOMAIN stack :
    (outcome[t].kind = "error" /\ outcome[t].op \in SiteOps
       /\ outcome[t].err = "UnauthorizedError")
      => /\ outcome[t].frame.fn = "_site_post"
         /\ outcome[t].frame.i + 1 = NUM_RETRIES
         /\ outcome[t].raised_at = 1

\* C6: no public operation ends with RetryableOperationError.
C6_RetryableNeverEscapes ==
  \A t \in DOMAIN stack : outcome[t].err # "RetryableOperationError"

\* C7: the answer to an authenticated request is classified by status 401
\* first, then result 72, then any other non-zero result, else success; and an
\* answer to an attempt of _site_post that is classified as anything but
\* success, UnauthorizedError or RetryableOperationError ends the call there:
\* that error is the outcome, nothing is pending, and the frame's re-login
\* count and flag are what the earlier answers made them.
C7_ClassifyAndFatal ==
  \A t \in DOMAIN stack :
    LET l == last[t] IN
    /\ (l.to \in {"site", "pin", "post"} /\ l.conn) =>
         /\ l.status = 401 => l.cls = "UnauthorizedError"
         /\ (l.status # 401 /\ l.has_result /\ l.result = RETRYABLE_RESULT_CODE)
              => l.cls = "RetryableOperationError"
         /\ (l.status # 401 /\ l.has_result
               /\ l.result \notin {0, RETRYABLE_RESULT_CODE})
              => l.cls = "OperationError"
         /\ (l.status # 401 /\ (~l.has_result \/ l.result = 0)) => l.cls = "ok"
    /\ (l.to = "post"
          /\ l.cls \notin {"none", "ok", "UnauthorizedError", "RetryableOperationError"})
         => /\ stack[t] = <<>>
            /\ outcome[t].kind = "error"
            /\ outcome[t].err = l.cls
            /\ outcome[t].raised_in = "_site_post"
            /\ outcome[t].raised_at = l.depth
            /\ l.depth = 1 =>
                 /\ outcome[t].frame.relog = outcome[t].frame.n401
                 /\ outcome[t].frame.i = outcome[t].frame.n401 + outcome[t].frame.nbusy
                 /\ outcome[t].frame.from_control_panel = (outcome[t].frame.nbusy = 0)

\* A 401 that also carried the retryable result code was answered to an
\* attempt, and an OperationError ended a call at its second attempt.
C7_Witness ==
  \E t \in DOMAIN stack :
    /\ last[t].to = "post" /\ last[t].cls = "OperationError" /\ last[t].depth = 1
    /\ SiteCallOver(t)
    /\ outcome[t].frame.i = 1 /\ outcome[t].frame.n401 = 1

\* C8: the profile in force is the one of the table for the state response it
\* was derived from: PanelMode when "partitions" was null, PartitionMode when
\* it was a list.
C8_DialectOfResponse ==
  /\ detected.shape = "null" => profile = PanelProfile
  /\ detected.shape = "list" => profile = PartitionProfile

\* C9: when login() has returned normally, a dialect detection has run since
\* the last close() and the profile in force is the one derived from its state
\* response.
C9_DetectionAfterClose ==
  \A t \in DOMAIN stack :
    (outcome[t].kind = "ok" /\ outcome[t].op = "login")
      => /\ ~detected.stale
         /\ detected.shape # "none"
         /\ profile = DialectProfile(PartitionRecord(0, detected.first))

\* C10: login() sends the requests of its steps in the order credentials,
\* site, pin, detect, and when it ends with an error no session id is stored.
C10_LoginFailsClosed ==
  \A t \in DOMAIN stack :
    (outcome[t].kind = "error" /\ outcome[t].op = "login")
      => /\ outcome[t].frame.fn = "login"
         /\ \E n \in 0..4 :
              outcome[t].frame.steps = SubSeq(<<"credentials", "site", "pin", "detect">>, 1, n)
         /\ session_id = 0

\* Task t is suspended in await self._session.close().
Closing(t) ==
  /\ stack[t] # <<>>
  /\ LET f == stack[t][Len(stack[t])] IN
     f.fn = "close" \/ f.pc \in {"close", "init_close"}

\* C11: close() always clears the session id; it calls close() on the handle
\* exactly when the client created it (while that close is awaited the handle
\* held is the client's own, flagged as created and closed; once close() has
\* returned no created handle is held, the flag is reset and no created handle
\* was dropped unclosed); a handle the caller supplied is held with the flag
\* reset, is never closed by the client and survives close().
C11_CloseOwnership ==
  /\ ~handles.ext_closed
  /\ ~handles.leaked
  /\ session = "ext" => (~created_session /\ ~handles.closed)
  /\ \A t \in DOMAIN stack :
       /\ Closing(t) =>
            /\ session_id = 0
            /\ session = "own" /\ created_session /\ handles.closed
       /\ (outcome[t].kind = "ok" /\ outcome[t].op = "close") =>
            /\ session_id = 0
            /\ ~created_session
            /\ session \in {"None", "ext"}

\* close() has returned on a logged-in client that holds the caller's handle.
C11_Witness ==
  \E t \in DOMAIN stack :
    /\ outcome[t].kind = "ok" /\ outcome[t].op = "close"
    /\ outcome[t].after_login
    /\ session = "ext"

\* C12: once close() has returned, the session state is what it was on a
\* freshly created client: no bearer token, no session id, no site id, name or
\* UUID, and no dialect profile.
C12_CloseClearsAll ==
  \A t \in DOMAIN stack :
    (outcome[t].kind = "ok" /\ outcome[t].op = "close")
      => /\ access_token = "None"
         /\ session_id = 0
         /\ site = NoSite
         /\ profile = UnsetProfile

\* C13: in every state the control endpoint, the two body templates and the
\* three state codes are all unset, or all those of PanelMode, or all those of
\* PartitionMode.
C13_ProfileAllOrNothing ==
  \/ /\ profile.control_url = Unset
     /\ profile.state_body_template = Unset
     /\ profile.group_body_template = Unset
     /\ profile.state_arm = NoCode
     /\ profile.state_disarm = NoCode
     /\ profile.state_partial_arm = NoCode
  \/ /\ profile.control_url = CONTROL_URL_PANEL_MODE
     /\ profile.state_body_template = PANEL_STATE_TEMPLATE
     /\ profile.group_body_template = PANEL_GROUP_TEMPLATE
     /\ profile.state_arm = PANEL_ARM
     /\ profile.state_disarm = PANEL_DISARM
     /\ profile.state_partial_arm = PANEL_PARTIAL_ARM
  \/ /\ profile.control_url = CONTROL_URL
     /\ profile.state_body_template = PARTITION_STATE_TEMPLATE
     /\ profile.group_body_template = PARTITION_GROUP_TEMPLATE
     /\ profile.state_arm = PARTITION_ARM
     /\ profile.state_disarm = PARTITION_DISARM
     /\ profile.state_partial_arm = PARTITION_PARTIAL_ARM

\* The detection query of a re-login is pending while the profile the earlier
\* login derived, PartitionMode, is in force.
C13_Witness ==
  \E t \in DOMAIN stack :
    /\ AtTop(t, "_site_post", "post")
    /\ Depth(stack[t]) >= 2
    /\ profile.control_url = CONTROL_URL
    /\ profile.state_arm = PARTITION_ARM

\* C14: in every state a stored session id comes with a stored, non-empty
\* bearer token.
C14_SessionImpliesBearer ==
  session_id # 0 => access_token \notin {"None", ""}

\* Task t is inside login(), or inside a public close().
LoginSeq(t) == \E n \in 1..Len(stack[t]) : stack[t][n].fn = "login"
CloseSeq(t) == stack[t] # <<>> /\ stack[t][1].fn = "close"

\* While one task is inside login(), no other task is inside login() or close().
OneLoginAtATime ==
  \A t1, t2 \in DOMAIN stack :
    (t1 # t2 /\ LoginSeq(t1)) => (~LoginSeq(t2) /\ ~CloseSeq(t2))

\* The handle a pending request of a login was sent on has been neither closed
\* nor dropped by the client.
LoginHandleKept ==
  \A t \in DOMAIN stack : (LoginSeq(t) /\ InFlight(Cur, t)) => ~handles.cut[t]

\* Every handle the client created and did not close is the one it holds.
NoLeakedHandle == ~handles.leaked

\* C15: login sequences are serialized against concurrent login() and close()
\* calls: at most one runs at a time, none has the handle of its pending
\* request closed or replaced under it, and no handle the client created is
\* left open without the client referring to it.
C15_LoginsSerialized ==
  /\ OneLoginAtATime
  /\ LoginHandleKept
  /\ NoLeakedHandle

\* C16: whenever a task is free to start an operation, and whenever the request
\* of a public site-scoped operation is pending with a session id in it, the
\* session is initialized fully or not at all: no session id is stored while
\* the dialect profile is unset.
C16_FullyOrNotAtAll ==
  \A t \in DOMAIN stack :
    /\ Idle(t) => ~(session_id # 0 /\ profile = UnsetProfile)
    /\ ( /\ stack[t] # <<>>
         /\ stack[t][1].fn = "_site_post" /\ stack[t][1].pc = "post"
         /\ stack[t][1].req.sessionToken # 0 )
       => profile # UnsetProfile

ControlOps == {"arm", "disarm", "partial_arm", "group_arm"}

\* C17: a pending control request that carries the session id of the login in
\* force (one whose detection has completed and that no close() has followed)
\* targets the control endpoint of the profile that login derived and, for arm,
\* disarm and partial_arm, carries that profile's state code of the operation.
C17_DialectOfSession ==
  \A t \in DOMAIN stack :
    \A f \in SitePostFrames(t) :
      ( /\ f.caller \in ControlOps /\ f.pc = "post"
        /\ session_id # 0 /\ ~detected.stale
        /\ f.req.sessionToken = session_id )
      => /\ f.req.url = profile.control_url
         /\ f.caller # "group_arm" =>
              \E n \in 1..Len(f.req.body) :
                f.req.body[n][2] = StateCode(profile, f.caller)

\* Every group_arm request carries, as its state code, the arm code of the
\* dialect whose endpoint it targets.
GroupArmRequestsCarryArmCode ==
  \A t \in DOMAIN stack :
    \A f \in SitePostFrames(t) :
      f.caller = "group_arm" =>
        \E n \in 1..Len(f.body) :
          /\ f.body[n][1] \in {"newSystemStatus", "state"}
          /\ f.body[n][2] = IF f.url = CONTROL_URL_PANEL_MODE
                            THEN PANEL_ARM ELSE PARTITION_ARM

\* C18: once a dialect is detected, group_arm yields a request for every
\* partition and every group A..D given by letter or by index, and every
\* group_arm request carries the arm code of the active dialect (PANEL_ARM or
\* PARTITION_ARM) as its state code, never another code.
C18_GroupArmUsesArmCode ==
  /\ profile # UnsetProfile =>
       \A partition \in PartitionIds :
         \A group \in {g \in Groups : g.is_str => GroupIndex(g.letter) >= 0} :
           GroupBody(profile, partition, group).err = ""
  /\ GroupArmRequestsCarryArmCode

\* C19: once a dialect is detected, for every partition and every group name
\* of GROUP_ID_TO_NAME, group_arm with the letter and group_arm with the
\* letter's 0-based index build the same body for the same endpoint, and both
\* build one.
C19_LetterEqualsIndex ==
  profile # UnsetProfile =>
    \A partition \in PartitionIds :
      \A n \in 1..Len(GROUP_ID_TO_NAME) :
        LET byLetter == GroupBody(profile, partition,
                                  [is_str |-> TRUE, letter |-> GROUP_ID_TO_NAME[n],
                                   index |-> 0])
            byIndex == GroupBody(profile, partition,
                                 [is_str |-> FALSE, letter |-> "", index |-> n - 1])
        IN /\ byLetter = byIndex
           /\ byLetter.err = ""
           /\ byIndex.err = ""

\* C20: when a call is cancelled while suspended, in an attempt or in the
\* re-login that follows a 401, the call ends there with CancelledError:
\* nothing of it stays pending (no further attempt is sent), and no close() or
\* login() is started (the session state, the handles and the ids issued are
\* what they were).
C20_CancelStops ==
  [][\A t \in DOMAIN stack :
       Cancel(t)
         => /\ stack'[t] = <<>>
            /\ outcome'[t].kind = "error"
            /\ outcome'[t].err = "CancelledError"
            /\ UNCHANGED <<SessionState, issued, detected, last>>
            /\ handles'.closed = handles.closed
            /\ handles'.leaked = handles.leaked]_vars

\* A site-scoped call on a logged-in client was cancelled during the re-login
\* that followed the 401 of its first attempt.
C20_Witness ==
  \E t \in DOMAIN stack :
    /\ outcome[t].err = "CancelledError"
    /\ outcome[t].after_login
    /\ outcome[t].op \in SiteOps
    /\ outcome[t].frame.fn = "_site_post"
    /\ outcome[t].frame.relog = 1
    /\ outcome[t].raised_at >= 2

\* A step of a public site-scoped operation of task t that handles no 401: the
\* call itself up to its first request, or the answer to an attempt of a call
\* in which no attempt has got a 401 and this one does not either.
SiteOpStepWithout401(t) ==
  \/ /\ stack[t] = <<>>
     /\ outcome'[t] # outcome[t]
     /\ outcome'[t].op \in SiteOps
  \/ /\ Len(stack[t]) = 1
     /\ stack[t][1].fn = "_site_post" /\ stack[t][1].pc = "post"
     /\ stack[t][1].n401 = 0
     /\ last'[t] # last[t]
     /\ last'[t].cls # "UnauthorizedError"

C22_AttemptCarriesTokenAndFlag ==
  /\ [](\A t \in DOMAIN stack :
          \A f \in SitePostFrames(t) :
            f.pc = "post" =>
              /\ f.req.sessionToken = session_id
              /\ f.req.fromControlPanel = f.from_control_panel
              /\ f.i = 0 => f.req.fromControlPanel)
  /\ [][\A t \in DOMAIN stack :
          \A n \in 1..Len(stack[t]) :
            ( /\ n <= Len(stack'[t])
              /\ stack[t][n].fn = "_site_post" /\ stack'[t][n].fn = "_site_post" )
            => LET f == stack[t][n]
                   g == stack'[t][n]
               IN /\ ~f.from_control_panel => ~g.from_control_panel
                  /\ (f.from_control_panel /\ ~g.from_control_panel)
                       => g.nbusy = f.nbusy + 1
                  /\ (g.i = f.i + 1 /\ f.pc # "post")
                       => /\ g.pc = "post"
                          /\ g.req.sessionToken = session_id'
                          /\ g.req.sessionToken # f.req.sessionToken
                          /\ g.req.sessionToken # 0
                          /\ g.from_control_panel = f.from_control_panel]_vars

\* The third attempt of a call is in flight after a busy answer and then a 401
\* with its re-login: it carries the new session id and a false flag.
C22_Witness ==
  \E t \in DOMAIN stack :
    /\ Len(stack[t]) = 1
    /\ stack[t][1].fn = "_site_post" /\ stack[t][1].pc = "post"
    /\ stack[t][1].i = 2
    /\ stack[t][1].nbusy = 1 /\ stack[t][1].n401 = 1 /\ stack[t][1].relog = 1
    /\ stack[t][1].req.sessionToken = session_id
    /\ session_id >= 2
    /\ ~stack[t][1].req.fromControlPanel

\* The public operations that return an Alarm.
AlarmOps == SiteOps \ {"get_events"}

\* C23: when a site-scoped call that returns an Alarm has succeeded, the
\* Alarm's assumed_control_panel_state is the negation of the flag of the
\* attempt that succeeded, and it is true exactly when a busy answer preceded
\* the success in that call, however many 401 retries there were.
C23_AssumedIffBusy ==
  \A t \in DOMAIN stack :
    (SiteCallOver(t) /\ outcome[t].kind = "ok" /\ outcome[t].op \in AlarmOps)
      => /\ last[t].to = "post" /\ last[t].cls = "ok"
         /\ outcome[t].assumed = ~outcome[t].frame.from_control_panel
         /\ outcome[t].assumed = (outcome[t].frame.nbusy >= 1)
         /\ outcome[t].frame.nbusy = 0 => ~outcome[t].assumed

\* get_state succeeded at its third attempt after a 401 and a busy answer, and
\* its Alarm is flagged as assumed.
C23_Witness ==
  \E t \in DOMAIN stack :
    /\ SiteCallOver(t) /\ outcome[t].kind = "ok" /\ outcome[t].op = "get_state"
    /\ outcome[t].frame.n401 = 1 /\ outcome[t].frame.nbusy = 1
    /\ outcome[t].assumed

\* The handles the client created that are open: the one it holds, unless
\* close() has been called on it, and one it dropped unclosed, if any.
OpenOwnHandles ==
  (IF session = "own" /\ ~handles.closed THEN 1 ELSE 0)
    + (IF handles.leaked THEN 1 ELSE 0)

\* C24: with one call at a time (login(session), close(), site operations,
\* their 401 re-logins and failed logins), the created flag is set exactly
\* when the handle held is one the client created, a set flag implies a handle
\* is held, at most one handle the client created is open, a closed handle is
\* held only while its close() is awaited, and the client gives up a handle it
\* created only after closing it, and creates one only when it holds none.
C24_HandleLifecycle ==
  /\ [](/\ created_session <=> session = "own"
        /\ created_session => session # "None"
        /\ OpenOwnHandles <= 1
        /\ ~handles.leaked
        /\ handles.closed => \E t \in DOMAIN stack : Closing(t))
  /\ [][/\ (session = "own" /\ session' # "own")
             => handles.closed /\ ~created_session'
        /\ (session # "own" /\ session' = "own")
             => session = "None" /\ created_session' /\ ~handles'.closed]_vars

\* A site operation has succeeded after a 401 re-login that closed the handle
\* the client had created and replaced it by a new one, which is held open.
C24_Witness ==
  \E t \in DOMAIN stack :
    /\ SiteCallOver(t) /\ outcome[t].kind = "ok"
    /\ outcome[t].frame.relog >= 1
    /\ session = "own" /\ created_session /\ ~handles.closed

====
